---- MODULE Spec2Model ----
(***************************************************************************)
(* Beth Yw? data model and ingestion pipeline (Measure, Area, Areas and    *)
(* the three populate parsers), modelled from src/measure.cpp,             *)
(* src/area.cpp and src/areas.cpp.                                         *)
(*                                                                         *)
(* Strings whose casing the program normalises (measure codes, language    *)
(* codes, labels) are sequences of ASCII codes, so that ::tolower is       *)
(* modelled character by character.  Authority codes and display names     *)
(* are never normalised and are plain strings.                             *)
(***************************************************************************)
EXTENDS Integers, Sequences, FiniteSets, TLC

VARIABLES ms, assigned, area, areas, is, areasFilter, measuresFilter, yearsFilter,
          calls, run, last

vars == <<ms, assigned, area, areas, is, areasFilter, measuresFilter, yearsFilter,
          calls, run, last>>

(***************************************************************************)
(* Bounds                                                                  *)
(***************************************************************************)
MaxYear == 3
MaxVal == 2
MaxRows == 2
MaxCalls == 2

Years == 1..MaxYear
Values == 1..MaxVal

(***************************************************************************)
(* Character strings                                                       *)
(***************************************************************************)
s_po == <<112, 111>>
s_Po == <<80, 111>>
s_PO == <<80, 79>>
s_de == <<100, 101>>
s_eng == <<101, 110, 103>>
s_ENG == <<69, 78, 71>>
s_cym == <<99, 121, 109>>
s_Lb == <<76, 98>>
s_empty == <<>>

CodePool == {s_po, s_Po, s_PO, s_de}
LangPool == {s_eng, s_ENG, s_cym}
NamePool == {"N1", "N2"}
AreaCodes == {"W1", "W2"}

\* ::tolower on one character
tolower(c) == IF c >= 65 /\ c <= 90 THEN c + 32 ELSE c

\* std::transform(s.begin(), s.end(), s.begin(), ::tolower)
ToLower(s) == [i \in 1..Len(s) |-> tolower(s[i])]

IsLower(s) == \A i \in 1..Len(s) : ~(s[i] >= 65 /\ s[i] <= 90)

\* the empty std::map
EmptyMap == <<>>

\* std::map operator[] assignment: m[k] = v
MapPut(m, k, v) == [x \in DOMAIN m \cup {k} |-> IF x = k THEN v ELSE m[x]]

(***************************************************************************)
(* Measure                                                                 *)
(***************************************************************************)
\* Measure::Measure()
MeasureDefault == [codename |-> s_empty, label |-> s_empty, values |-> EmptyMap]

\* Measure::Measure(codename, label)
MeasureCtor(codename, label) ==
  [codename |-> ToLower(codename), label |-> label, values |-> EmptyMap]

MeasureSetValueKeepOld(m, year, value) ==
  IF year \in DOMAIN m.values THEN m ELSE [m EXCEPT !.values = MapPut(m.values, year, value)]

\* Measure::setValue
MeasureSetValue(m, year, value) ==
  [m EXCEPT !.values = MapPut(m.values, year, value)]

\* Measure::getValue
MeasureGetValue(m, year) ==
  IF year \notin DOMAIN m.values
    THEN [err |-> "out_of_range", value |-> 0]
    ELSE [err |-> "ok", value |-> m.values[year]]

Abs(n) == IF n < 0 THEN 0 - n ELSE n

\* the quotient num / den (den # 0) of two doubles, kept as the fraction in
\* lowest terms with a positive denominator; 0 is 0 / 1
Quotient(num, den) ==
  LET g == CHOOSE d \in 1..Abs(den) :
             /\ Abs(num) % d = 0 /\ Abs(den) % d = 0
             /\ \A e \in (d + 1)..Abs(den) : ~(Abs(num) % e = 0 /\ Abs(den) % e = 0)
      sign == IF den < 0 THEN 0 - 1 ELSE 1
  IN [num |-> sign * (num \div g), den |-> Abs(den) \div g]
Zero == Quotient(0, 1)

RECURSIVE SumValues(_, _)
\* the loop of getAverage over the years left to visit
SumValues(values, years) ==
  IF years = {} THEN 0
  ELSE LET y == CHOOSE x \in years : \A z \in years : x <= z
       IN values[y] + SumValues(values, years \ {y})

\* Measure::getAverage
MeasureGetAverage(m) ==
  IF DOMAIN m.values = {} THEN Zero
  ELSE Quotient(SumValues(m.values, DOMAIN m.values), Cardinality(DOMAIN m.values))

\* Measure::getDifferenceAsPercentage
MeasureGetDifferenceAsPercentage(m) ==
  IF DOMAIN m.values = {} THEN Zero
  ELSE LET firstYear == m.values[CHOOSE y \in DOMAIN m.values : \A z \in DOMAIN m.values : y <= z]
           lastYear == m.values[CHOOSE y \in DOMAIN m.values : \A z \in DOMAIN m.values : z <= y]
       IN IF firstYear = 0 THEN Zero
          ELSE Quotient((lastYear - firstYear) * 100, firstYear)

MeasureGetDifferenceSwapped(m) ==
  IF DOMAIN m.values = {} \/ Cardinality(DOMAIN m.values) = 1 THEN 0
  ELSE LET first == CHOOSE y \in DOMAIN m.values : \A z \in DOMAIN m.values : y <= z
           lastYear == CHOOSE y \in DOMAIN m.values : \A z \in DOMAIN m.values : z <= y
       IN m.values[first] - m.values[lastYear]

\* Measure::getDifference
MeasureGetDifference(m) ==
  IF DOMAIN m.values = {} \/ Cardinality(DOMAIN m.values) = 1 THEN 0
  ELSE LET first == CHOOSE y \in DOMAIN m.values : \A z \in DOMAIN m.values : y <= z
           lastYear == CHOOSE y \in DOMAIN m.values : \A z \in DOMAIN m.values : z <= y
       IN m.values[lastYear] - m.values[first]

CombineSum(self, other) ==
  [self EXCEPT !.values =
     [y \in DOMAIN self.values \cup DOMAIN other.values |->
        IF y \notin DOMAIN other.values THEN self.values[y]
        ELSE IF y \notin DOMAIN self.values THEN other.values[y]
        ELSE self.values[y] + other.values[y]]]

CombineReplaceAll(self, other) == [self EXCEPT !.values = other.values]

CombineKeepOld(self, other) ==
  [self EXCEPT !.values =
     [y \in DOMAIN self.values \cup DOMAIN other.values |->
        IF y \in DOMAIN self.values THEN self.values[y] ELSE other.values[y]]]

\* Measure::combine
Combine(self, other) ==
  [self EXCEPT !.values =
     [y \in DOMAIN self.values \cup DOMAIN other.values |->
        IF y \in DOMAIN other.values THEN other.values[y] ELSE self.values[y]]]

(***************************************************************************)
(* Area                                                                    *)
(***************************************************************************)
\* Area::Area()
AreaDefault == [areaAuthCode |-> "", names |-> EmptyMap, measures |-> EmptyMap]

\* Area::Area(localAuthorityCode)
AreaCtor(code) == [areaAuthCode |-> code, names |-> EmptyMap, measures |-> EmptyMap]

\* Area::setName
AreaSetName(a, lang, name) ==
  [a EXCEPT !.names = MapPut(a.names, ToLower(lang), name)]

AreaSetMeasureOverwrite(a, code, measure) ==
  [a EXCEPT !.measures = MapPut(a.measures, ToLower(code), measure)]

AreaSetMeasureKeepCase(a, code, measure) ==
  IF code \in DOMAIN a.measures
    THEN [a EXCEPT !.measures[code] = Combine(a.measures[code], measure)]
    ELSE [a EXCEPT !.measures = MapPut(a.measures, code, measure)]

\* Area::setMeasure
AreaSetMeasure(a, code, measure) ==
  LET codeLower == ToLower(code) IN
  IF codeLower \in DOMAIN a.measures
    THEN [a EXCEPT !.measures[codeLower] = Combine(a.measures[codeLower], measure)]
    ELSE [a EXCEPT !.measures = MapPut(a.measures, codeLower, measure)]

\* Area::getMeasure: keyLower is computed, the lookup uses key
AreaGetMeasure(a, key) ==
  LET keyLower == ToLower(key) IN
  IF key \in DOMAIN a.measures
    THEN [err |-> "ok", value |-> a.measures[key]]
    ELSE [err |-> "out_of_range", value |-> MeasureDefault]

\* Area::getName
AreaGetName(a, lang) ==
  LET langLower == ToLower(lang) IN
  IF langLower \in DOMAIN a.names
    THEN [err |-> "ok", value |-> a.names[langLower]]
    ELSE [err |-> "out_of_range", value |-> ""]

(***************************************************************************)
(* Values the callers can build                                            *)
(***************************************************************************)
RECURSIVE SetValues(_, _, _)
\* setValue(y, v) for every year y of S
SetValues(m, S, v) ==
  IF S = {} THEN m
  ELSE LET y == CHOOSE x \in S : TRUE
       IN SetValues(MeasureSetValue(m, y, v), S \ {y}, v)

\* Measures built by the constructor and setValue calls
MeasureInputs ==
  {SetValues(MeasureCtor(c, s_Lb), S, v) :
     c \in {s_Po, s_de}, S \in SUBSET Years, v \in Values}

\* no year of either Measure object has been given a value
NoneAssigned == [i \in 1..2 |-> EmptyMap]

NoStream == [kind |-> "none"]
NoLast == [op |-> "init"]

\* no loadDatasets call is under way
NoRun == [i |-> 0, datasets |-> <<>>, cerr |-> <<>>, attempted |-> <<>>]

(***************************************************************************)
(* Specification of two Measure objects                                    *)
(***************************************************************************)
InitMeasure ==
  /\ ms = [i \in 1..2 |-> MeasureDefault]
  /\ assigned = NoneAssigned
  /\ area = AreaDefault
  /\ areas = EmptyMap
  /\ is = NoStream
  /\ areasFilter = {}
  /\ measuresFilter = {}
  /\ yearsFilter = <<0, 0>>
  /\ calls = 0
  /\ run = NoRun
  /\ last = NoLast

MeasureConstruct(i, code, label) ==
  /\ ms' = [ms EXCEPT ![i] = MeasureCtor(code, label)]
  /\ assigned' = [assigned EXCEPT ![i] = EmptyMap]
  /\ last' = [op |-> "Measure", i |-> i, j |-> i]
  /\ UNCHANGED <<area, areas, is, areasFilter, measuresFilter, yearsFilter, calls, run>>

MeasureSetValueCall(i, y, v) ==
  /\ ms' = [ms EXCEPT ![i] = MeasureSetValue(ms[i], y, v)]
  /\ assigned' = [assigned EXCEPT ![i] =
                    [z \in DOMAIN assigned[i] \cup {y} |-> IF z = y THEN v ELSE assigned[i][z]]]
  /\ last' = [op |-> "setValue", i |-> i, j |-> i]
  /\ UNCHANGED <<area, areas, is, areasFilter, measuresFilter, yearsFilter, calls, run>>

MeasureCombineCall(i, j) ==
  /\ ms' = [ms EXCEPT ![i] = Combine(ms[i], ms[j])]
  /\ assigned' = [assigned EXCEPT ![i] =
                    [z \in DOMAIN assigned[i] \cup DOMAIN ms[j].values |->
                       IF z \in DOMAIN ms[j].values THEN ms[j].values[z] ELSE assigned[i][z]]]
  /\ last' = [op |-> "combine", i |-> i, j |-> j]
  /\ UNCHANGED <<area, areas, is, areasFilter, measuresFilter, yearsFilter, calls, run>>

\* A0 = copy of ms[i]; ms[i].combine(ms[j]); ms[i].combine(A0)
RecombineCall(i, j) ==
  LET A0 == ms[i]
      R == Combine(ms[i], ms[j])
  IN /\ ms' = [ms EXCEPT ![i] = Combine(R, A0)]
     /\ assigned' = [assigned EXCEPT ![i] = Combine(R, A0).values]
     /\ last' = [op |-> "recombine", i |-> i, j |-> j, a0 |-> A0.values]
     /\ UNCHANGED <<area, areas, is, areasFilter, measuresFilter, yearsFilter, calls, run>>

\* ms[i].combine(ms[j]) twice; once is the mapping seen between the calls
CombineTwiceCall(i, j) ==
  LET R == Combine(ms[i], ms[j])
      other == IF i = j THEN R ELSE ms[j]
  IN /\ ms' = [ms EXCEPT ![i] = Combine(R, other)]
     /\ assigned' = [assigned EXCEPT ![i] = Combine(R, other).values]
     /\ last' = [op |-> "combineTwice", i |-> i, j |-> j, once |-> R.values]
     /\ UNCHANGED <<area, areas, is, areasFilter, measuresFilter, yearsFilter, calls, run>>

\* A = copy of ms[1], B = copy of ms[2]; ms[1].combine(B); ms[2].combine(A)
CombineBothWaysCall ==
  LET A == ms[1]
      B == ms[2]
  IN /\ ms' = [ms EXCEPT ![1] = Combine(A, B), ![2] = Combine(B, A)]
     /\ assigned' = [assigned EXCEPT ![1] = Combine(A, B).values, ![2] = Combine(B, A).values]
     /\ last' = [op |-> "combineBothWays", i |-> 1, j |-> 2]
     /\ UNCHANGED <<area, areas, is, areasFilter, measuresFilter, yearsFilter, calls, run>>

MeasureGetValueCall(i, y) ==
  /\ last' = [op |-> "getValue", i |-> i, j |-> i, year |-> y,
              result |-> MeasureGetValue(ms[i], y)]
  /\ UNCHANGED <<ms, assigned, area, areas, is, areasFilter, measuresFilter, yearsFilter, calls, run>>

\* the three statistics read one after the other
MeasureStatsCall(i) ==
  /\ last' = [op |-> "statistics", i |-> i, j |-> i,
              average |-> MeasureGetAverage(ms[i]),
              difference |-> MeasureGetDifference(ms[i]),
              percentage |-> MeasureGetDifferenceAsPercentage(ms[i])]
  /\ UNCHANGED <<ms, assigned, area, areas, is, areasFilter, measuresFilter, yearsFilter, calls, run>>

NextMeasure ==
  \/ \E i \in 1..2, c \in {s_po, s_Po} : MeasureConstruct(i, c, s_Lb)
  \/ \E i \in 1..2, y \in Years, v \in Values : MeasureSetValueCall(i, y, v)
  \/ \E i \in 1..2, j \in 1..2 : MeasureCombineCall(i, j)
  \/ \E i \in 1..2, j \in 1..2 : RecombineCall(i, j)
  \/ \E i \in 1..2, j \in 1..2 : CombineTwiceCall(i, j)
  \/ CombineBothWaysCall

SpecMeasure == InitMeasure /\ [][NextMeasure]_vars

(***************************************************************************)
(* Specification of one Measure object that is written and read; a value   *)
(* may be 0                                                                *)
(***************************************************************************)
SeriesValues == 0..MaxVal

NextSeries ==
  \/ \E c \in {s_po, s_Po} : MeasureConstruct(1, c, s_Lb)
  \/ \E y \in Years, v \in SeriesValues : MeasureSetValueCall(1, y, v)
  \/ \E y \in Years : MeasureGetValueCall(1, y)
  \/ MeasureStatsCall(1)

SpecSeries == InitMeasure /\ [][NextSeries]_vars

(***************************************************************************)
(* Specification of one Area object                                        *)
(***************************************************************************)
InitArea ==
  /\ ms = [i \in 1..2 |-> MeasureDefault]
  /\ assigned = NoneAssigned
  /\ area = AreaCtor("W1")
  /\ areas = EmptyMap
  /\ is = NoStream
  /\ areasFilter = {}
  /\ measuresFilter = {}
  /\ yearsFilter = <<0, 0>>
  /\ calls = 0
  /\ run = NoRun
  /\ last = NoLast

AreaSetNameCall(lang, name) ==
  /\ area' = AreaSetName(area, lang, name)
  /\ last' = [op |-> "setName", key |-> lang]
  /\ UNCHANGED <<ms, areas, is, areasFilter, measuresFilter, yearsFilter, calls, run, assigned>>

AreaSetMeasureCall(code, m) ==
  /\ area' = AreaSetMeasure(area, code, m)
  /\ last' = [op |-> "setMeasure", key |-> code, measure |-> m]
  /\ UNCHANGED <<ms, areas, is, areasFilter, measuresFilter, yearsFilter, calls, run, assigned>>

AreaGetMeasureCall(key) ==
  /\ last' = [op |-> "getMeasure", key |-> key, result |-> AreaGetMeasure(area, key)]
  /\ UNCHANGED <<ms, area, areas, is, areasFilter, measuresFilter, yearsFilter, calls, run, assigned>>

NextArea ==
  \/ \E lang \in LangPool, name \in NamePool : AreaSetNameCall(lang, name)
  \/ \E code \in {s_po, s_Po, s_PO}, m \in MeasureInputs : AreaSetMeasureCall(code, m)
  \/ \E key \in CodePool : AreaGetMeasureCall(key)

SpecArea == InitArea /\ [][NextArea]_vars

(***************************************************************************)
(* Areas                                                                   *)
(***************************************************************************)
AreasSetAreaMerge(as, localAuthorityCode, a) ==
  IF localAuthorityCode \in DOMAIN as
    THEN LET old == as[localAuthorityCode]
         IN [as EXCEPT ![localAuthorityCode] =
               [areaAuthCode |-> a.areaAuthCode,
                names |-> [l \in DOMAIN old.names \cup DOMAIN a.names |->
                             IF l \in DOMAIN a.names THEN a.names[l] ELSE old.names[l]],
                measures |-> [k \in DOMAIN old.measures \cup DOMAIN a.measures |->
                                IF k \in DOMAIN a.measures
                                  THEN a.measures[k] ELSE old.measures[k]]]]
    ELSE MapPut(as, localAuthorityCode, a)

\* Areas::setArea
AreasSetArea(as, localAuthorityCode, a) ==
  IF localAuthorityCode \in DOMAIN as
    THEN [as EXCEPT ![localAuthorityCode] = a]
    ELSE MapPut(as, localAuthorityCode, a)

AreasInsertAreaByName(as, a) ==
  LET k == IF s_eng \in DOMAIN a.names THEN a.names[s_eng] ELSE a.areaAuthCode
  IN IF k \in DOMAIN as THEN as ELSE MapPut(as, k, a)

AreasInsertAreaOverwrite(as, a) == MapPut(as, a.areaAuthCode, a)

\* Areas::insertArea: std::map::insert keeps an existing entry
AreasInsertArea(as, a) ==
  IF a.areaAuthCode \in DOMAIN as THEN as ELSE MapPut(as, a.areaAuthCode, a)

\* Areas::getArea
AreasGetArea(as, localAuthorityCode) ==
  IF localAuthorityCode \in DOMAIN as
    THEN [err |-> "ok", value |-> as[localAuthorityCode]]
    ELSE [err |-> "out_of_range", value |-> AreaDefault]

\* Areas::size
AreasSize(as) == Cardinality(DOMAIN as)

(***************************************************************************)
(* Areas::toJSON.  A json value is null (what a default-constructed json   *)
(* is) or an object; operator[] with a key turns null into an object.      *)
(***************************************************************************)
JsonNull == [type |-> "null"]
JsonObject(members) == [type |-> "object", members |-> members]

\* operator< of std::string
StringLess(a, b) ==
  \/ \E i \in 1..Len(a) :
       /\ i <= Len(b)
       /\ a[i] < b[i]
       /\ \A j \in 1..(i - 1) : a[j] = b[j]
  \/ Len(a) < Len(b) /\ \A j \in 1..Len(a) : a[j] = b[j]

\* yearsJson of one Measure
YearsJson(measure) ==
  IF DOMAIN measure.values = {} THEN JsonNull ELSE JsonObject(measure.values)

\* measuresJson of one Area: keyed by getCodename(), a later entry of the
\* map replacing an earlier one of the same codename
MeasuresJson(a) ==
  IF DOMAIN a.measures = {} THEN JsonNull
  ELSE JsonObject(
         [cn \in {a.measures[k].codename : k \in DOMAIN a.measures} |->
            LET ks == {k \in DOMAIN a.measures : a.measures[k].codename = cn}
                k == CHOOSE x \in ks : \A z \in ks \ {x} : StringLess(z, x)
            IN YearsJson(a.measures[k])])

\* areaJson of one Area; getName("eng") is not guarded
AreaJson(a) ==
  LET hasCym == AreaGetName(a, s_cym).err = "ok"
      names == IF hasCym
                 THEN [eng |-> AreaGetName(a, s_eng).value, cym |-> AreaGetName(a, s_cym).value]
                 ELSE [eng |-> AreaGetName(a, s_eng).value]
  IN JsonObject([names |-> JsonObject(names), measures |-> MeasuresJson(a)])

\* json::dump: the text of null and of the object without members; the
\* members of any other object are kept as they are
Dump(j) ==
  IF j.type = "null" THEN [text |-> "null", of |-> j]
  ELSE IF DOMAIN j.members = {} THEN [text |-> "{}", of |-> j]
  ELSE [text |-> "{...}", of |-> j]

\* Areas::toJSON
ToJSON(as) ==
  IF \E c \in DOMAIN as : AreaGetName(as[c], s_eng).err # "ok"
    THEN [err |-> "out_of_range", out |-> Dump(JsonNull)]
    ELSE LET j == IF DOMAIN as = {} THEN JsonNull
                  ELSE JsonObject([c \in DOMAIN as |-> AreaJson(as[c])])
         IN [err |-> "ok", out |-> Dump(j)]

\* the lines operator<< writes for one Area of the collection: the name
\* line, then "<no measures>" or one block for each entry of the measure map
AreaLines(a, areaCode) ==
  LET hasCym == AreaGetName(a, s_cym).err = "ok" IN
  [eng |-> AreaGetName(a, s_eng).value,
   cym |-> IF hasCym THEN <<AreaGetName(a, s_cym).value>> ELSE <<>>,
   code |-> areaCode,
   noMeasures |-> DOMAIN a.measures = {},
   blocks |-> [k \in DOMAIN a.measures |->
                 [codename |-> a.measures[k].codename, years |-> a.measures[k].values]]]

\* operator<<(std::ostream&, const Areas&); getName("eng") is not guarded
AreasPrint(as) ==
  IF \E c \in DOMAIN as : AreaGetName(as[c], s_eng).err # "ok"
    THEN [err |-> "out_of_range", out |-> EmptyMap]
    ELSE [err |-> "ok", out |-> [c \in DOMAIN as |-> AreaLines(as[c], c)]]

m_po1 == MeasureSetValue(MeasureCtor(s_Po, s_Lb), 1, 1)
m_po2 == MeasureSetValue(MeasureSetValue(MeasureCtor(s_po, s_Lb), 1, 2), 2, 2)
m_de1 == MeasureSetValue(MeasureCtor(s_de, s_Lb), 2, 1)

\* Areas built by the constructor, setName and setMeasure calls
AreaInputs ==
  LET named == {AreaCtor(c) : c \in AreaCodes}
                 \cup {AreaSetName(AreaCtor(c), s_eng, n) : c \in AreaCodes, n \in NamePool}
                 \cup {AreaSetName(AreaSetName(AreaCtor(c), s_ENG, "N1"), s_cym, "N2") :
                         c \in AreaCodes}
  IN named
       \cup {AreaSetMeasure(a, s_Po, m_po1) : a \in named}
       \cup {AreaSetMeasure(a, s_po, m_po2) : a \in named}
       \cup {AreaSetMeasure(AreaSetMeasure(a, s_Po, m_po1), s_de, m_de1) : a \in named}

(***************************************************************************)
(* Specification of an Areas collection filled by setArea and insertArea   *)
(***************************************************************************)
InitAreas ==
  /\ ms = [i \in 1..2 |-> MeasureDefault]
  /\ assigned = NoneAssigned
  /\ area = AreaDefault
  /\ areas = EmptyMap
  /\ is = NoStream
  /\ areasFilter = {}
  /\ measuresFilter = {}
  /\ yearsFilter = <<0, 0>>
  /\ calls = 0
  /\ run = NoRun
  /\ last = NoLast

SetAreaCall(code, a) ==
  /\ areas' = AreasSetArea(areas, code, a)
  /\ last' = [op |-> "setArea", key |-> code, area |-> a,
              found |-> code \in DOMAIN areas]
  /\ UNCHANGED <<ms, area, is, areasFilter, measuresFilter, yearsFilter, calls, run, assigned>>

InsertAreaCall(a) ==
  /\ areas' = AreasInsertArea(areas, a)
  /\ last' = [op |-> "insertArea", key |-> a.areaAuthCode, area |-> a,
              found |-> a.areaAuthCode \in DOMAIN areas]
  /\ UNCHANGED <<ms, area, is, areasFilter, measuresFilter, yearsFilter, calls, run, assigned>>

ToJSONCall ==
  /\ last' = [op |-> "toJSON", result |-> ToJSON(areas)]
  /\ UNCHANGED <<ms, area, areas, is, areasFilter, measuresFilter, yearsFilter, calls, run, assigned>>

PrintCall ==
  /\ last' = [op |-> "print", result |-> AreasPrint(areas)]
  /\ UNCHANGED <<ms, area, areas, is, areasFilter, measuresFilter, yearsFilter, calls, run, assigned>>

NextAreas ==
  \/ \E code \in AreaCodes, a \in AreaInputs : SetAreaCall(code, a)
  \/ \E a \in AreaInputs : InsertAreaCall(a)
  \/ ToJSONCall
  \/ PrintCall

SpecAreas == InitAreas /\ [][NextAreas]_vars

(***************************************************************************)
(* Input streams.  A CSV line is modelled after its split on ',' and a     *)
(* JSON record after the column mapping was applied to it; a numeric       *)
(* token is either parseable (ok) or makes std::stoi / std::stod throw.    *)
(* Values are fixed-point numbers counted in units of 10^-7.               *)
(***************************************************************************)
Num(v) == [ok |-> TRUE, val |-> v]
BadTok == [ok |-> FALSE, val |-> 0]

\* units of 10^-7 in the last digit std::to_string(double) prints ("%f")
ToStringUnit == 10

V(n) == n * ToStringUnit
StoredValues == {V(n) : n \in Values}

\* std::to_string(double) followed by std::stod / std::stoi of the text
ToStringThenParse(x) == ((x + ToStringUnit \div 2) \div ToStringUnit) * ToStringUnit

RECURSIVE SeqsUpTo(_, _)
\* the sequences over S of length at most n
SeqsUpTo(S, n) ==
  IF n = 0 THEN {<<>>}
  ELSE LET shorter == SeqsUpTo(S, n - 1)
       IN shorter \cup {Append(q, x) : q \in {r \in shorter : Len(r) = n - 1}, x \in S}

AuthRows ==
  {<<"W1", "N1", "N2">>, <<"W2", "N1", "N1">>, <<"W1", "N2", "N2">>, <<"W2", "N2">>}

AuthStreams == {[kind |-> "AuthorityCodeCSV", rows |-> r] : r \in SeqsUpTo(AuthRows, MaxRows)}

HeaderYears == [i \in 1..MaxYear |-> Num(i)]

ByYearRows ==
  {[code |-> c, vals |-> [i \in 1..MaxYear |-> Num(V(n))]] : c \in AreaCodes, n \in Values}
    \cup {[code |-> "W1", vals |-> <<Num(V(1)), BadTok>>],
          [code |-> "W1", vals |-> [i \in 1..(MaxYear + 1) |-> Num(V(1))]],
          [code |-> "W1", vals |-> <<Num(V(2))>>]}

ByYearStreams ==
  {[kind |-> "AuthorityByYearCSV", header |-> HeaderYears, rows |-> r] :
     r \in SeqsUpTo(ByYearRows, MaxRows)}
    \cup {[kind |-> "AuthorityByYearCSV", header |-> <<Num(1), BadTok>>,
           rows |-> <<[code |-> "W1", vals |-> <<Num(V(1))>>]>>]}

JsonRecord(c, hasCode, mc, y, v) ==
  [has |-> {"AUTH_CODE", "AUTH_NAME_ENG", "MEASURE_NAME"}
             \cup (IF hasCode THEN {"MEASURE_CODE"} ELSE {})
             \cup (IF y.ok THEN {"YEAR"} ELSE {})
             \cup (IF v.ok THEN {"VALUE"} ELSE {}),
   AUTH_CODE |-> c, AUTH_NAME_ENG |-> "N2", MEASURE_CODE |-> mc, MEASURE_NAME |-> s_Lb,
   YEAR |-> y, VALUE |-> v]

JsonRecords ==
  {JsonRecord("W1", TRUE, s_Po, Num(1), Num(V(1))),
   JsonRecord("W1", TRUE, s_po, Num(2), Num(V(2))),
   JsonRecord("W1", TRUE, s_Po, Num(2), Num(V(1) + 4)),
   JsonRecord("W1", TRUE, s_de, Num(3), Num(V(1))),
   JsonRecord("W2", TRUE, s_Po, Num(3), Num(V(2))),
   JsonRecord("W2", FALSE, s_empty, Num(1), Num(V(1))),
   JsonRecord("W1", FALSE, s_empty, Num(2), Num(V(2))),
   JsonRecord("W1", TRUE, s_Po, BadTok, Num(V(1))),
   JsonRecord("W2", TRUE, s_de, Num(2), BadTok)}

JsonStreams == {[kind |-> "WelshStatsJSON", value |-> r] : r \in SeqsUpTo(JsonRecords, MaxRows)}

Streams ==
  AuthStreams \cup ByYearStreams \cup JsonStreams \cup {[kind |-> "bad"], [kind |-> "empty"]}

(***************************************************************************)
(* The dataset catalogue (datasets.h)                                      *)
(***************************************************************************)
s_ra == <<114, 97>>
s_AC == <<65, 67>>
s_Pn == <<80, 110>>
s_Dn == <<68, 110>>
s_Rn == <<82, 110>>

DataTypes == {"None", "AuthorityCodeCSV", "AuthorityByYearCSV", "WelshStatsJSON"}

\* BethYw::InputFiles::TRAINS
TRAINS ==
  [PARSER |-> "WelshStatsJSON",
   COLS |-> [AUTH_CODE |-> s_AC, SINGLE_MEASURE_CODE |-> s_ra, SINGLE_MEASURE_NAME |-> s_Rn]]

\* BethYw::InputFiles::AREAS
AREAS ==
  [PARSER |-> "AuthorityCodeCSV",
   COLS |-> [AUTH_CODE |-> s_AC, AUTH_NAME_ENG |-> s_Pn, AUTH_NAME_CYM |-> s_Dn]]

\* a single-measure JSON file that declares the measure code "po" for itself
SCENARIO ==
  [PARSER |-> "WelshStatsJSON",
   COLS |-> [AUTH_CODE |-> s_AC, SINGLE_MEASURE_CODE |-> s_po, SINGLE_MEASURE_NAME |-> s_Pn]]

\* BethYw::InputFiles::DATASETS
DATASETS ==
  <<TRAINS,
    [PARSER |-> "AuthorityByYearCSV",
     COLS |-> [AUTH_CODE |-> s_AC, SINGLE_MEASURE_CODE |-> s_po, SINGLE_MEASURE_NAME |-> s_Pn]],
    [PARSER |-> "AuthorityByYearCSV",
     COLS |-> [AUTH_CODE |-> s_AC, SINGLE_MEASURE_CODE |-> s_de, SINGLE_MEASURE_NAME |-> s_Dn]]>>

\* the column mappings of the catalogue's datasets of one type
ColsOf(type) == {DATASETS[i].COLS : i \in {n \in DOMAIN DATASETS : DATASETS[n].PARSER = type}}

(***************************************************************************)
(* Parsers.  Each returns the collection it leaves and the exception it    *)
(* raised ("ok" when none).                                                *)
(***************************************************************************)
Result(as, err) == [areas |-> as, err |-> err]

RECURSIVE AuthorityCodeLinesLastWins(_, _, _)
AuthorityCodeLinesLastWins(as, rows, af) ==
  IF rows = <<>> THEN Result(as, "ok")
  ELSE LET tokens == Head(rows) IN
       IF Len(tokens) < 3 THEN Result(as, "out_of_range")
       ELSE IF af # {} /\ tokens[1] \notin af
         THEN AuthorityCodeLinesLastWins(as, Tail(rows), af)
         ELSE LET a == AreaSetName(AreaSetName(AreaCtor(tokens[1]), s_eng, tokens[2]),
                                   s_cym, tokens[3])
              IN AuthorityCodeLinesLastWins(AreasSetArea(as, tokens[1], a), Tail(rows), af)

RECURSIVE AuthorityCodeLines(_, _, _)
\* the while loop of Areas::populateFromAuthorityCodeCSV
AuthorityCodeLines(as, rows, af) ==
  IF rows = <<>> THEN Result(as, "ok")
  ELSE LET tokens == Head(rows) IN
       IF Len(tokens) < 3 THEN Result(as, "out_of_range")
       ELSE IF af # {} /\ tokens[1] \notin af
         THEN AuthorityCodeLines(as, Tail(rows), af)
         ELSE LET a == AreaSetName(AreaSetName(AreaCtor(tokens[1]), s_eng, tokens[2]),
                                   s_cym, tokens[3])
              IN AuthorityCodeLines(AreasInsertArea(as, a), Tail(rows), af)

PopulateFromAuthorityCodeCSVUnfiltered(as, stream, af) ==
  AuthorityCodeLines(as, stream.rows, {})

\* Areas::populateFromAuthorityCodeCSV
PopulateFromAuthorityCodeCSV(as, stream, af) == AuthorityCodeLines(as, stream.rows, af)

\* the year test of Areas::populateFromWelshStatsJSON
JsonYearWanted(year, yf) ==
  (yf[1] = 0 /\ yf[2] = 0) \/ (year >= yf[1] /\ year <= yf[2])

JsonRecordStepInsertFirst(as, r, af, mf, yf) ==
  LET isSingleMeasure == "MEASURE_CODE" \notin r.has
      localAuthorityCode == IF "AUTH_CODE" \in r.has THEN r.AUTH_CODE ELSE ""
      localAuthorityNameEng == IF "AUTH_NAME_ENG" \in r.has THEN r.AUTH_NAME_ENG ELSE ""
      measureCode ==
        ToLower(IF isSingleMeasure THEN TRAINS.COLS.SINGLE_MEASURE_CODE ELSE r.MEASURE_CODE)
      measureLabel ==
        ToLower(IF isSingleMeasure THEN TRAINS.COLS.SINGLE_MEASURE_NAME
                ELSE IF "MEASURE_NAME" \in r.has THEN r.MEASURE_NAME ELSE s_empty)
      yearTok == IF "YEAR" \in r.has THEN r.YEAR ELSE BadTok
      valueTok == IF "VALUE" \in r.has THEN r.VALUE ELSE BadTok
      a == AreaSetName(AreaCtor(localAuthorityCode), s_eng, localAuthorityNameEng)
      inserted == AreasInsertArea(as, a)
  IN IF af # {} /\ localAuthorityCode \notin af THEN Result(as, "ok")
     ELSE IF mf # {} /\ measureCode \notin mf THEN Result(as, "ok")
     ELSE IF ~yearTok.ok THEN Result(as, "invalid_argument")
     ELSE IF ~JsonYearWanted(yearTok.val, yf) THEN Result(inserted, "ok")
     ELSE IF ~valueTok.ok THEN Result(as, "invalid_argument")
     ELSE LET measure == MeasureSetValue(MeasureCtor(measureCode, measureLabel),
                                         yearTok.val, ToStringThenParse(valueTok.val))
          IN Result([inserted EXCEPT ![localAuthorityCode] =
                       AreaSetMeasure(inserted[localAuthorityCode], measureCode, measure)],
                    "ok")

\* one iteration of the loop of Areas::populateFromWelshStatsJSON
JsonRecordStep(as, r, af, mf, yf) ==
  LET isSingleMeasure == "MEASURE_CODE" \notin r.has
      localAuthorityCode == IF "AUTH_CODE" \in r.has THEN r.AUTH_CODE ELSE ""
      localAuthorityNameEng == IF "AUTH_NAME_ENG" \in r.has THEN r.AUTH_NAME_ENG ELSE ""
      measureCode ==
        ToLower(IF isSingleMeasure THEN TRAINS.COLS.SINGLE_MEASURE_CODE ELSE r.MEASURE_CODE)
      measureLabel ==
        ToLower(IF isSingleMeasure THEN TRAINS.COLS.SINGLE_MEASURE_NAME
                ELSE IF "MEASURE_NAME" \in r.has THEN r.MEASURE_NAME ELSE s_empty)
      yearTok == IF "YEAR" \in r.has THEN r.YEAR ELSE BadTok
      valueTok == IF "VALUE" \in r.has THEN r.VALUE ELSE BadTok
  IN IF af # {} /\ localAuthorityCode \notin af THEN Result(as, "ok")
     ELSE IF mf # {} /\ measureCode \notin mf THEN Result(as, "ok")
     ELSE IF ~yearTok.ok THEN Result(as, "invalid_argument")
     ELSE IF ~JsonYearWanted(yearTok.val, yf) THEN Result(as, "ok")
     ELSE IF ~valueTok.ok THEN Result(as, "invalid_argument")
     ELSE LET measure == MeasureSetValue(MeasureCtor(measureCode, measureLabel),
                                         yearTok.val, ToStringThenParse(valueTok.val))
              a == AreaSetName(AreaCtor(localAuthorityCode), s_eng, localAuthorityNameEng)
              inserted == AreasInsertArea(as, a)
          IN Result([inserted EXCEPT ![localAuthorityCode] =
                       AreaSetMeasure(inserted[localAuthorityCode], measureCode, measure)],
                    "ok")

RECURSIVE JsonRecordsLoop(_, _, _, _, _)
\* the for loop of Areas::populateFromWelshStatsJSON
JsonRecordsLoop(as, recs, af, mf, yf) ==
  IF recs = <<>> THEN Result(as, "ok")
  ELSE LET step == JsonRecordStep(as, Head(recs), af, mf, yf)
       IN IF step.err # "ok" THEN step
          ELSE JsonRecordsLoop(step.areas, Tail(recs), af, mf, yf)

\* Areas::populateFromWelshStatsJSON
PopulateFromWelshStatsJSON(as, stream, af, mf, yf) ==
  JsonRecordsLoop(as, stream.value, af, mf, yf)

\* the year test of Areas::populateFromAuthorityByYearCSV: TRUE when the year is skipped
ByYearSkipped(year, yf) ==
  yf[1] # 0 /\ yf[2] # 0 /\ (year < yf[1] \/ year > yf[2])

RECURSIVE ByYearValues(_, _, _, _, _)
\* the inner for loop of Areas::populateFromAuthorityByYearCSV over one line's values
ByYearValues(measure, vals, years, i, yf) ==
  IF i > Len(vals) THEN [measure |-> measure, err |-> "ok"]
  ELSE IF i > Len(years) THEN [measure |-> measure, err |-> "out_of_range"]
  ELSE IF ~vals[i].ok THEN [measure |-> measure, err |-> "invalid_argument"]
  ELSE IF ByYearSkipped(years[i], yf) THEN ByYearValues(measure, vals, years, i + 1, yf)
  ELSE ByYearValues(MeasureSetValue(measure, years[i], vals[i].val), vals, years, i + 1, yf)

\* the catalogue lookup of Areas::populateFromAuthorityByYearCSV; first is the
\* key of *cols.begin(), which the unordered map is free to choose
SingleMeasureOf(cols, first) ==
  LET hits == {n \in DOMAIN DATASETS :
                 /\ DATASETS[n].PARSER = "AuthorityByYearCSV"
                 /\ DATASETS[n].COLS.SINGLE_MEASURE_NAME = cols[first]}
  IN IF hits = {} THEN [code |-> s_empty, label |-> s_empty]
     ELSE LET n == CHOOSE h \in hits : \A g \in hits : h <= g
          IN [code |-> DATASETS[n].COLS.SINGLE_MEASURE_CODE,
              label |-> DATASETS[n].COLS.SINGLE_MEASURE_NAME]

RECURSIVE ByYearLinesCreate(_, _, _, _, _, _)
ByYearLinesCreate(as, rows, years, single, af, yf) ==
  IF rows = <<>> THEN Result(as, "ok")
  ELSE LET localAuthorityCode == Head(rows).code IN
       IF af # {} /\ localAuthorityCode \notin af
         THEN ByYearLinesCreate(as, Tail(rows), years, single, af, yf)
         ELSE LET built == ByYearValues(MeasureCtor(single.code, single.label),
                                        Head(rows).vals, years, 1, yf)
                  found == IF localAuthorityCode \in DOMAIN as THEN as
                           ELSE MapPut(as, localAuthorityCode, AreaDefault)
              IN IF built.err # "ok" THEN Result(as, built.err)
                 ELSE ByYearLinesCreate(
                        [found EXCEPT ![localAuthorityCode] =
                           AreaSetMeasure(found[localAuthorityCode], single.code, built.measure)],
                        Tail(rows), years, single, af, yf)

RECURSIVE ByYearLines(_, _, _, _, _, _)
\* the while loop of Areas::populateFromAuthorityByYearCSV
ByYearLines(as, rows, years, single, af, yf) ==
  IF rows = <<>> THEN Result(as, "ok")
  ELSE LET localAuthorityCode == Head(rows).code IN
       IF af # {} /\ localAuthorityCode \notin af
         THEN ByYearLines(as, Tail(rows), years, single, af, yf)
         ELSE LET built == ByYearValues(MeasureCtor(single.code, single.label),
                                        Head(rows).vals, years, 1, yf)
              IN IF built.err # "ok" THEN Result(as, built.err)
                 ELSE IF localAuthorityCode \notin DOMAIN as THEN Result(as, "out_of_range")
                 ELSE ByYearLines(
                        [as EXCEPT ![localAuthorityCode] =
                           AreaSetMeasure(as[localAuthorityCode], single.code, built.measure)],
                        Tail(rows), years, single, af, yf)

PopulateFromAuthorityByYearCSVRollback(as, stream, cols, first, af, mf, yf) ==
  IF \E i \in DOMAIN stream.header : ~stream.header[i].ok
    THEN Result(as, "invalid_argument")
    ELSE LET res == ByYearLines(as, stream.rows,
                                [i \in DOMAIN stream.header |-> stream.header[i].val],
                                SingleMeasureOf(cols, first), af, yf)
         IN IF res.err = "ok" THEN res ELSE Result(as, res.err)

\* Areas::populateFromAuthorityByYearCSV; measuresFilter is not read
PopulateFromAuthorityByYearCSV(as, stream, cols, first, af, mf, yf) ==
  IF \E i \in DOMAIN stream.header : ~stream.header[i].ok
    THEN Result(as, "invalid_argument")
    ELSE ByYearLines(as, stream.rows, [i \in DOMAIN stream.header |-> stream.header[i].val],
                     SingleMeasureOf(cols, first), af, yf)

PopulateUnfilteredNoByYear(as, stream, type, cols, first) ==
  LET emptyFilter == {}
      emptyYearFilter == <<0, 0>>
  IN IF stream.kind = "bad" THEN Result(as, "runtime_error")
     ELSE IF stream.kind = "empty" THEN Result(as, "runtime_error")
     ELSE IF type = "AuthorityCodeCSV"
       THEN PopulateFromAuthorityCodeCSV(as, stream, emptyFilter)
     ELSE IF type = "WelshStatsJSON"
       THEN PopulateFromWelshStatsJSON(as, stream, emptyFilter, emptyFilter, emptyYearFilter)
     ELSE Result(as, "runtime_error")

\* Areas::populate(is, type, cols)
PopulateUnfiltered(as, stream, type, cols, first) ==
  LET emptyFilter == {}
      emptyYearFilter == <<0, 0>>
  IN IF stream.kind = "bad" THEN Result(as, "runtime_error")
     ELSE IF stream.kind = "empty" THEN Result(as, "runtime_error")
     ELSE IF type = "AuthorityCodeCSV"
       THEN PopulateFromAuthorityCodeCSV(as, stream, emptyFilter)
     ELSE IF type = "WelshStatsJSON"
       THEN PopulateFromWelshStatsJSON(as, stream, emptyFilter, emptyFilter, emptyYearFilter)
     ELSE IF type = "AuthorityByYearCSV"
       THEN PopulateFromAuthorityByYearCSV(as, stream, cols, first, emptyFilter,
                                           emptyFilter, emptyYearFilter)
     ELSE Result(as, "runtime_error")

PopulateGuessType(as, stream, type, cols, first, af, mf, yf) ==
  IF stream.kind = "bad" THEN Result(as, "runtime_error")
  ELSE IF stream.kind = "empty" THEN Result(as, "runtime_error")
  ELSE IF type = "AuthorityCodeCSV" THEN PopulateFromAuthorityCodeCSV(as, stream, af)
  ELSE IF type = "WelshStatsJSON" THEN PopulateFromWelshStatsJSON(as, stream, af, mf, yf)
  ELSE IF type = "AuthorityByYearCSV"
    THEN PopulateFromAuthorityByYearCSV(as, stream, cols, first, af, mf, yf)
  ELSE IF stream.kind = "WelshStatsJSON"
    THEN PopulateFromWelshStatsJSON(as, stream, af, mf, yf)
  ELSE Result(as, "runtime_error")

\* Areas::populate(is, type, cols, areasFilter, measuresFilter, yearsFilter)
Populate(as, stream, type, cols, first, af, mf, yf) ==
  IF stream.kind = "bad" THEN Result(as, "runtime_error")
  ELSE IF stream.kind = "empty" THEN Result(as, "runtime_error")
  ELSE IF type = "AuthorityCodeCSV" THEN PopulateFromAuthorityCodeCSV(as, stream, af)
  ELSE IF type = "WelshStatsJSON" THEN PopulateFromWelshStatsJSON(as, stream, af, mf, yf)
  ELSE IF type = "AuthorityByYearCSV"
    THEN PopulateFromAuthorityByYearCSV(as, stream, cols, first, af, mf, yf)
  ELSE Result(as, "runtime_error")

(***************************************************************************)
(* Specification of the ingestion: the filters are fixed for a run, a      *)
(* stream is opened and handed to one populate call, and the Areas of the  *)
(* collection are reachable through getArea.                              *)
(***************************************************************************)
AreaFilters == {{}, {"W1"}}
MeasureFilters == {{}, {s_po}, {s_PO}}
YearFilters == {<<0, 0>>, <<2, 2>>, <<0, 2>>, <<2, 0>>}

Init ==
  /\ ms = [i \in 1..2 |-> MeasureDefault]
  /\ assigned = NoneAssigned
  /\ area = AreaDefault
  /\ areas = EmptyMap
  /\ is = NoStream
  /\ areasFilter \in AreaFilters
  /\ measuresFilter \in MeasureFilters
  /\ yearsFilter \in YearFilters
  /\ calls = 0
  /\ run = NoRun
  /\ last = NoLast

\* InputFile::open by the caller of populate
OpenStream(stream) ==
  /\ is = NoStream
  /\ calls < MaxCalls
  /\ is' = stream
  /\ last' = [op |-> "open"]
  /\ UNCHANGED <<ms, area, areas, areasFilter, measuresFilter, yearsFilter, calls, run, assigned>>

\* the stream holds what the declared type says, or nothing usable
Declared(type) == is.kind \in {"bad", "empty", type} \/ (type = "None" /\ is # NoStream)

Called(op, type, cols, first, res, af, mf, yf) ==
  /\ areas' = res.areas
  /\ is' = NoStream
  /\ calls' = calls + 1
  /\ last' = [op |-> op, type |-> type, err |-> res.err, af |-> af, mf |-> mf, yf |-> yf,
              kind |-> is.kind, cols |-> cols, first |-> first,
              rows |-> IF is.kind \in {"AuthorityCodeCSV", "AuthorityByYearCSV"} THEN Len(is.rows)
                       ELSE IF is.kind = "WelshStatsJSON" THEN Len(is.value) ELSE 0]
  /\ UNCHANGED <<ms, area, areasFilter, measuresFilter, yearsFilter, run, assigned>>

\* BethYw::loadAreas
LoadAreasCall ==
  /\ is.kind = "AuthorityCodeCSV"
  /\ Called("populateFromAuthorityCodeCSV", "AuthorityCodeCSV", AREAS.COLS, "AUTH_CODE",
            PopulateFromAuthorityCodeCSV(areas, is, areasFilter),
            areasFilter, {}, <<0, 0>>)

PopulateUnfilteredCall(type, cols, first) ==
  /\ Declared(type)
  /\ Called("populate3", type, cols, first, PopulateUnfiltered(areas, is, type, cols, first),
            {}, {}, <<0, 0>>)

\* BethYw::loadDatasets
PopulateCall(type, cols, first) ==
  /\ Declared(type)
  /\ Called("populate6", type, cols, first,
            Populate(areas, is, type, cols, first, areasFilter, measuresFilter, yearsFilter),
            areasFilter, measuresFilter, yearsFilter)

\* getArea(c).setName(lang, name)
GetAreaSetName(c, lang, name) ==
  /\ is = NoStream
  /\ calls < MaxCalls
  /\ AreasGetArea(areas, c).err = "ok"
  /\ areas' = [areas EXCEPT ![c] = AreaSetName(areas[c], lang, name)]
  /\ calls' = calls + 1
  /\ last' = [op |-> "getArea.setName", key |-> lang]
  /\ UNCHANGED <<ms, area, is, areasFilter, measuresFilter, yearsFilter, run, assigned>>

\* getArea(c).setMeasure(code, m)
GetAreaSetMeasure(c, code, m) ==
  /\ is = NoStream
  /\ calls < MaxCalls
  /\ AreasGetArea(areas, c).err = "ok"
  /\ areas' = [areas EXCEPT ![c] = AreaSetMeasure(areas[c], code, m)]
  /\ calls' = calls + 1
  /\ last' = [op |-> "getArea.setMeasure", key |-> code, codename |-> m.codename]
  /\ UNCHANGED <<ms, area, is, areasFilter, measuresFilter, yearsFilter, run, assigned>>

\* the column mappings and first entries a call of the given type is made with
ColsFor(type) ==
  IF type = "AuthorityByYearCSV" THEN ColsOf(type)
  ELSE IF type = "WelshStatsJSON" THEN {TRAINS.COLS, SCENARIO.COLS}
  ELSE IF type = "AuthorityCodeCSV" THEN {AREAS.COLS}
  ELSE {TRAINS.COLS}
FirstFor(type, cols) == IF type = "AuthorityByYearCSV" THEN DOMAIN cols ELSE {"AUTH_CODE"}

Next ==
  \/ \E stream \in Streams : OpenStream(stream)
  \/ LoadAreasCall
  \/ \E type \in DataTypes : \E cols \in ColsFor(type) :
       \E first \in FirstFor(type, cols) : PopulateUnfilteredCall(type, cols, first)
  \/ \E type \in DataTypes : \E cols \in ColsFor(type) :
       \E first \in FirstFor(type, cols) : PopulateCall(type, cols, first)
  \/ \E c \in AreaCodes, lang \in LangPool, name \in NamePool : GetAreaSetName(c, lang, name)
  \/ \E c \in AreaCodes, code \in {s_Po, s_de}, m \in {m_po1, m_po2, m_de1} :
       GetAreaSetMeasure(c, code, m)

Spec == Init /\ [][Next]_vars

(***************************************************************************)
(* Specification of BethYw::loadDatasets: run.i is the position of the for *)
(* loop in datasetsToImport, run.cerr what the catch blocks have written   *)
(* to std::cerr, run.attempted the datasets whose file the loop has tried  *)
(* to open.  The content of each file is chosen when it is opened.         *)
(***************************************************************************)
MaxDatasets == 2

DatasetLists == SeqsUpTo({DATASETS[n] : n \in DOMAIN DATASETS}, MaxDatasets)

\* what the file of a dataset can hold
LoadFiles(dataset) ==
  {[kind |-> "missing"], [kind |-> "empty"]}
    \cup (IF dataset.PARSER = "WelshStatsJSON"
            THEN {[kind |-> "WelshStatsJSON", value |-> r] : r \in SeqsUpTo(JsonRecords, 1)}
            ELSE {st \in ByYearStreams : Len(st.rows) <= 1})

\* InputFile::open
InputFileOpen(file) == IF file.kind = "missing" THEN "runtime_error" ELSE "ok"

\* the body of the try block of BethYw::loadDatasets
LoadTry(as, file, dataset, first, af, mf, yf) ==
  IF InputFileOpen(file) # "ok" THEN Result(as, InputFileOpen(file))
  ELSE Populate(as, file, dataset.PARSER, dataset.COLS, first, af, mf, yf)

\* the catch blocks of BethYw::loadDatasets
LoadReport(err) ==
  IF err = "out_of_range" THEN "Key not found in map: " ELSE "Error importing dataset: "

LoadAdvanceAbort(i, n, err) == IF err = "ok" THEN i + 1 ELSE n + 1

\* the for loop of BethYw::loadDatasets moves on, whatever the try block raised
LoadAdvance(i, n, err) == i + 1

\* the collection BethYw::loadAreas leaves
LoadedAreas(af) ==
  PopulateFromAuthorityCodeCSV(
    EmptyMap,
    [kind |-> "AuthorityCodeCSV", rows |-> <<(<<"W1", "N1", "N2">>), (<<"W2", "N1", "N1">>)>>],
    af).areas

InitLoad ==
  /\ ms = [i \in 1..2 |-> MeasureDefault]
  /\ assigned = NoneAssigned
  /\ area = AreaDefault
  /\ areasFilter \in AreaFilters
  /\ measuresFilter = {}
  /\ yearsFilter \in {<<0, 0>>, <<2, 2>>}
  /\ areas \in {EmptyMap, LoadedAreas(areasFilter)}
  /\ is = NoStream
  /\ calls = 0
  /\ \E list \in DatasetLists :
       run = [i |-> 1, datasets |-> list, cerr |-> <<>>, attempted |-> <<>>]
  /\ last = NoLast

\* one iteration of the for loop of BethYw::loadDatasets
LoadDatasetsStep(file, first) ==
  /\ run.i \in 1..Len(run.datasets)
  /\ LET dataset == run.datasets[run.i]
         res == LoadTry(areas, file, dataset, first, areasFilter, measuresFilter, yearsFilter)
     IN /\ file \in LoadFiles(dataset)
        /\ first \in FirstFor(dataset.PARSER, dataset.COLS)
        /\ areas' = res.areas
        /\ run' = [run EXCEPT
                     !.i = LoadAdvance(run.i, Len(run.datasets), res.err),
                     !.cerr = IF res.err = "ok" THEN @
                              ELSE Append(@, [dataset |-> run.i, what |-> LoadReport(res.err)]),
                     !.attempted = Append(@, run.i)]
        /\ last' = [op |-> "loadDatasets", dataset |-> run.i, err |-> res.err]
  /\ UNCHANGED <<ms, area, is, areasFilter, measuresFilter, yearsFilter, calls, assigned>>

AllFiles == UNION {LoadFiles(DATASETS[n]) : n \in DOMAIN DATASETS}
AllFirsts == UNION {FirstFor(DATASETS[n].PARSER, DATASETS[n].COLS) : n \in DOMAIN DATASETS}

NextLoad == \E file \in AllFiles, first \in AllFirsts : LoadDatasetsStep(file, first)

SpecLoad == InitLoad /\ [][NextLoad]_vars

\* the loop is sequential and every call it makes returns or throws
SpecLoadFair == SpecLoad /\ WF_vars(NextLoad)

(***************************************************************************)
(* Specification of the ingestion record by record: every call is handed   *)
(* an authority-code table of one row or a JSON document of one record.    *)
(***************************************************************************)
MaxRecordCalls == 3

InitJson ==
  /\ ms = [i \in 1..2 |-> MeasureDefault]
  /\ assigned = NoneAssigned
  /\ area = AreaDefault
  /\ areas = EmptyMap
  /\ is = NoStream
  /\ areasFilter \in AreaFilters
  /\ measuresFilter \in MeasureFilters
  /\ yearsFilter \in YearFilters
  /\ calls = 0
  /\ run = NoRun
  /\ last = NoLast

\* loadAreas on a table of one row
LoadAreasRow(row) ==
  LET res == PopulateFromAuthorityCodeCSV(
               areas, [kind |-> "AuthorityCodeCSV", rows |-> <<row>>], areasFilter)
  IN /\ calls < MaxRecordCalls
     /\ areas' = res.areas
     /\ calls' = calls + 1
     /\ last' = [op |-> "populateFromAuthorityCodeCSV", type |-> "AuthorityCodeCSV",
                 err |-> res.err, af |-> areasFilter, mf |-> {}, yf |-> <<0, 0>>,
                 cols |-> AREAS.COLS, record |-> row]
     /\ UNCHANGED <<ms, area, is, areasFilter, measuresFilter, yearsFilter, run, assigned>>

\* populate on a JSON document of one record
JsonRecordCall(r, cols) ==
  LET res == Populate(areas, [kind |-> "WelshStatsJSON", value |-> <<r>>], "WelshStatsJSON",
                      cols, "AUTH_CODE", areasFilter, measuresFilter, yearsFilter)
  IN /\ calls < MaxRecordCalls
     /\ areas' = res.areas
     /\ calls' = calls + 1
     /\ last' = [op |-> "populate6", type |-> "WelshStatsJSON", err |-> res.err,
                 af |-> areasFilter, mf |-> measuresFilter, yf |-> yearsFilter,
                 cols |-> cols, record |-> r]
     /\ UNCHANGED <<ms, area, is, areasFilter, measuresFilter, yearsFilter, run, assigned>>

NextJson ==
  \/ \E row \in AuthRows : LoadAreasRow(row)
  \/ \E r \in JsonRecords, cols \in ColsFor("WelshStatsJSON") : JsonRecordCall(r, cols)

SpecJson == InitJson /\ [][NextJson]_vars

(***************************************************************************)
(* C2: Measure.combine(other) leaves self with exactly the union of both   *)
(* year sets, other's value on every year other defines and self's         *)
(* previous value on every other year.                                      *)
(***************************************************************************)
C2_CombineUnion ==
  [][last'.op = "combine" =>
       LET self == ms[last'.i]
           other == ms[last'.j]
           res == ms'[last'.i]
       IN /\ DOMAIN res.values = DOMAIN self.values \cup DOMAIN other.values
          /\ \A y \in DOMAIN other.values : res.values[y] = other.values[y]
          /\ \A y \in DOMAIN self.values \ DOMAIN other.values :
               res.values[y] = self.values[y]]_vars

C2_Witness ==
  /\ last.op = "combine"
  /\ last.i # last.j
  /\ DOMAIN ms[last.j].values # {}
  /\ DOMAIN ms[last.i].values \ DOMAIN ms[last.j].values # {}
  /\ \E y \in DOMAIN ms[last.j].values : ms[last.i].values[y] = ms[last.j].values[y]

(***************************************************************************)
(* C1: Area.setMeasure(code, series) combines into the series already      *)
(* stored under lowercase(code) (union of years, new value wins, old-only  *)
(* years kept) or stores the new series under lowercase(code); no stored   *)
(* series ever loses a year.                                                *)
(***************************************************************************)
C1_SetMeasureMerges ==
  [][last'.op = "setMeasure" =>
       LET k == ToLower(last'.key)
           m == last'.measure
       IN /\ DOMAIN area'.measures = DOMAIN area.measures \cup {k}
          /\ \A x \in DOMAIN area.measures \ {k} : area'.measures[x] = area.measures[x]
          /\ IF k \in DOMAIN area.measures
               THEN LET old == area.measures[k]
                        new == area'.measures[k]
                    IN /\ new.codename = old.codename
                       /\ new.label = old.label
                       /\ DOMAIN new.values = DOMAIN old.values \cup DOMAIN m.values
                       /\ \A y \in DOMAIN m.values : new.values[y] = m.values[y]
                       /\ \A y \in DOMAIN old.values \ DOMAIN m.values :
                            new.values[y] = old.values[y]
               ELSE area'.measures[k] = m]_vars

C1_Witness ==
  /\ last.op = "setMeasure"
  /\ last.key # ToLower(last.key)
  /\ DOMAIN last.measure.values # {}
  /\ DOMAIN area.measures[ToLower(last.key)].values \ DOMAIN last.measure.values # {}

(***************************************************************************)
(* C7: Area.getMeasure is case-insensitive: it returns the series stored   *)
(* under lowercase(key) and fails with NotFound only when there is none.   *)
(***************************************************************************)
C7_GetMeasureCaseInsensitive ==
  last.op = "getMeasure" =>
    IF ToLower(last.key) \in DOMAIN area.measures
      THEN /\ last.result.err = "ok"
           /\ last.result.value = area.measures[ToLower(last.key)]
      ELSE last.result.err = "out_of_range"

(***************************************************************************)
(* C3: Areas.insertArea(area) is first-insert-wins: with the area's        *)
(* authority code already present nothing changes; otherwise the area is   *)
(* stored under its own authority code.                                     *)
(***************************************************************************)
C3_InsertAreaFirstWins ==
  [][last'.op = "insertArea" =>
       LET a == last'.area IN
       IF a.areaAuthCode \in DOMAIN areas
         THEN /\ areas' = areas
              /\ AreasSize(areas') = AreasSize(areas)
         ELSE /\ DOMAIN areas' = DOMAIN areas \cup {a.areaAuthCode}
              /\ areas'[a.areaAuthCode] = a
              /\ \A c \in DOMAIN areas : areas'[c] = areas[c]]_vars

C3_Witness ==
  /\ last.op = "insertArea"
  /\ last.found
  /\ areas[last.key] # last.area
  /\ areas[last.key].areaAuthCode = last.key

C5_SetAreaCombines ==
  [][(last'.op = "setArea" /\ last'.key \in DOMAIN areas) =>
       LET old == areas[last'.key]
           new == last'.area
           res == areas'[last'.key]
       IN /\ \A l \in DOMAIN old.names \ DOMAIN new.names :
               l \in DOMAIN res.names /\ res.names[l] = old.names[l]
          /\ \A k \in DOMAIN old.measures \ DOMAIN new.measures :
               k \in DOMAIN res.measures /\ res.measures[k] = old.measures[k]
          /\ \A l \in DOMAIN new.names :
               l \in DOMAIN res.names /\ res.names[l] = new.names[l]
          /\ \A k \in DOMAIN new.measures :
               k \in DOMAIN res.measures /\ res.measures[k] = new.measures[k]]_vars

(***************************************************************************)
(* C6: every Measure's code, every language key of an Area's names and     *)
(* every key of an Area's measures is lowercase, whatever the casing of    *)
(* the inputs of the constructors, setName, setMeasure and the parsers.    *)
(***************************************************************************)
C6_LowercaseKeys ==
  \A c \in DOMAIN areas :
    /\ \A l \in DOMAIN areas[c].names : IsLower(l)
    /\ \A k \in DOMAIN areas[c].measures :
         IsLower(k) /\ IsLower(areas[c].measures[k].codename)

C6_Witness ==
  /\ last.op = "getArea.setName"
  /\ last.key = s_ENG
  /\ \E c \in DOMAIN areas :
       /\ s_eng \in DOMAIN areas[c].names
       /\ s_po \in DOMAIN areas[c].measures

ParserOps == {"populateFromAuthorityCodeCSV", "populate3", "populate6"}

InRange(y, yf) == yf = <<0, 0>> \/ (yf[1] <= y /\ y <= yf[2])

\* the years an Area of a collection has a value for, in any measure
YearsAt(as, c) ==
  IF c \in DOMAIN as
    THEN UNION {DOMAIN as[c].measures[k].values : k \in DOMAIN as[c].measures}
    ELSE {}

\* the (year) entries of series k of area c that a step wrote
Written(c, k) ==
  {y \in DOMAIN areas'[c].measures[k].values :
     ~(/\ c \in DOMAIN areas
       /\ k \in DOMAIN areas[c].measures
       /\ y \in DOMAIN areas[c].measures[k].values
       /\ areas[c].measures[k].values[y] = areas'[c].measures[k].values[y])}

(***************************************************************************)
(* C8: in the authority-by-year and the JSON parser alike, (0,0) stores    *)
(* every year of the input and any other pair (start,end) stores exactly   *)
(* the input years within start..end and drops every other year.           *)
(***************************************************************************)
C8_YearFilter ==
  [][(last'.op \in ParserOps /\ last'.type \in {"AuthorityByYearCSV", "WelshStatsJSON"}) =>
       /\ \A c \in DOMAIN areas' : \A k \in DOMAIN areas'[c].measures :
            \A y \in Written(c, k) : InRange(y, last'.yf)
       /\ (last'.err = "ok" /\ last'.af = {} /\ last'.mf = {}) =>
            IF last'.type = "AuthorityByYearCSV"
              THEN \A n \in DOMAIN is.rows : \A i \in DOMAIN is.rows[n].vals :
                     InRange(is.header[i].val, last'.yf) =>
                       is.header[i].val \in YearsAt(areas', is.rows[n].code)
              ELSE \A n \in DOMAIN is.value :
                     InRange(is.value[n].YEAR.val, last'.yf) =>
                       is.value[n].YEAR.val \in YearsAt(areas', is.value[n].AUTH_CODE)]_vars

(***************************************************************************)
(* C9: with a non-empty measure filter no parser call adds or changes a    *)
(* measure series whose code is not in the filter.                         *)
(***************************************************************************)
C9_MeasureFilter ==
  [][(last'.op \in ParserOps /\ last'.mf # {}) =>
       \A c \in DOMAIN areas' : \A k \in DOMAIN areas'[c].measures :
         k \notin last'.mf =>
           /\ c \in DOMAIN areas
           /\ k \in DOMAIN areas[c].measures
           /\ areas'[c].measures[k] = areas[c].measures[k]]_vars

(***************************************************************************)
(* C10: in each of the three parsers a non-empty area filter keeps the     *)
(* call from creating or changing any Area whose authority code is not in  *)
(* the filter, and with an empty area filter the area of every row or      *)
(* record is processed.                                                     *)
(***************************************************************************)
C10_AreaFilter ==
  [][last'.op \in ParserOps =>
       /\ last'.af # {} =>
            \A c \in DOMAIN areas' :
              c \notin last'.af => c \in DOMAIN areas /\ areas'[c] = areas[c]
       /\ (last'.af = {} /\ last'.err = "ok") =>
            CASE last'.type = "AuthorityCodeCSV" ->
                   \A n \in DOMAIN is.rows : is.rows[n][1] \in DOMAIN areas'
              [] last'.type = "AuthorityByYearCSV" ->
                   \A n \in DOMAIN is.rows : areas'[is.rows[n].code].measures # EmptyMap
              [] last'.type = "WelshStatsJSON" ->
                   (last'.mf = {} /\ last'.yf = <<0, 0>>) =>
                     \A n \in DOMAIN is.value : is.value[n].AUTH_CODE \in DOMAIN areas'
              [] OTHER -> TRUE]_vars

\* a filtered call went through and left the one area of the filter with measures
C10_Witness ==
  /\ last.op = "populate6"
  /\ last.type \in {"AuthorityByYearCSV", "WelshStatsJSON"}
  /\ last.af = {"W1"}
  /\ last.err = "ok"
  /\ "W1" \in DOMAIN areas
  /\ areas["W1"].measures # EmptyMap
  /\ "W2" \notin DOMAIN areas

\* what the claims say of one JSON record: the measure it is about and the
\* filters it fails
RecCode(r, cols) ==
  ToLower(IF "MEASURE_CODE" \in r.has THEN r.MEASURE_CODE ELSE cols.SINGLE_MEASURE_CODE)

AreaFails(r, af) == af # {} /\ r.AUTH_CODE \notin af
MeasureFails(r, cols, mf) == mf # {} /\ RecCode(r, cols) \notin mf
YearFails(r, yf) == r.YEAR.ok /\ ~InRange(r.YEAR.val, yf)
Accepted(r, cols, af, mf, yf) ==
  /\ ~AreaFails(r, af) /\ ~MeasureFails(r, cols, mf)
  /\ r.YEAR.ok /\ InRange(r.YEAR.val, yf) /\ r.VALUE.ok

JsonStep == last'.op = "populate6" /\ last'.type = "WelshStatsJSON"

(***************************************************************************)
(* C11: a JSON record that fails the area filter, else the measure filter, *)
(* else the year range is skipped without any mutation: the collection is  *)
(* the same before and after it, and the fields a later check would read   *)
(* (year after area and measure, value after year) are not even parsed.    *)
(***************************************************************************)
C11_JsonFiltersNoMutation ==
  [][JsonStep =>
       LET r == last'.record IN
       (AreaFails(r, last'.af) \/ MeasureFails(r, last'.cols, last'.mf)
          \/ YearFails(r, last'.yf)) =>
         areas' = areas /\ last'.err = "ok"]_vars

\* a record that passes the area and the measure filter and fails the year
\* range has been processed on a collection that holds areas
C11_Witness ==
  /\ last.op = "populate6" /\ last.type = "WelshStatsJSON"
  /\ last.af # {} /\ last.mf # {}
  /\ ~AreaFails(last.record, last.af)
  /\ ~MeasureFails(last.record, last.cols, last.mf)
  /\ YearFails(last.record, last.yf)
  /\ last.err = "ok"
  /\ areas # EmptyMap

(***************************************************************************)
(* C12: an accepted JSON record that names area c, measure m, year y and   *)
(* value v                                                                  *)
(* creates area c with only an English name when c is absent and leaves    *)
(* the names of an existing c as they were; afterwards series m of c maps  *)
(* y to v, and every other (measure, year) value of c and every other area *)
(* is unchanged.                                                            *)
(***************************************************************************)
C12_JsonAccepted ==
  [][(/\ JsonStep
      /\ "MEASURE_CODE" \in last'.record.has
      /\ Accepted(last'.record, last'.cols, last'.af, last'.mf, last'.yf)) =>
       LET r == last'.record
           c == r.AUTH_CODE
           m == RecCode(r, last'.cols)
           y == r.YEAR.val
           v == r.VALUE.val
       IN /\ last'.err = "ok"
          /\ DOMAIN areas' = DOMAIN areas \cup {c}
          /\ \A d \in DOMAIN areas \ {c} : areas'[d] = areas[d]
          /\ IF c \in DOMAIN areas
               THEN areas'[c].names = areas[c].names
               ELSE DOMAIN areas'[c].names = {s_eng} /\ areas'[c].names[s_eng] = r.AUTH_NAME_ENG
          /\ m \in DOMAIN areas'[c].measures
          /\ y \in DOMAIN areas'[c].measures[m].values
          /\ areas'[c].measures[m].values[y] = v
          /\ \A k \in DOMAIN areas'[c].measures : \A z \in DOMAIN areas'[c].measures[k].values :
               <<k, z>> # <<m, y>> =>
                 /\ c \in DOMAIN areas
                 /\ k \in DOMAIN areas[c].measures
                 /\ z \in DOMAIN areas[c].measures[k].values
                 /\ areas'[c].measures[k].values[z] = areas[c].measures[k].values[z]
          /\ c \in DOMAIN areas =>
               \A k \in DOMAIN areas[c].measures : \A z \in DOMAIN areas[c].measures[k].values :
                 k \in DOMAIN areas'[c].measures /\ z \in DOMAIN areas'[c].measures[k].values]_vars

(***************************************************************************)
(* C19: after an authority-code table, an unfiltered JSON record without   *)
(* a measure-code field for an existing area leaves that Area with exactly *)
(* one measure, keyed by the single-measure code the ingested file         *)
(* declares, holding exactly the record's year with the record's value,    *)
(* and getDifference() of it is 0.                                          *)
(***************************************************************************)
C19_SingleMeasureEndToEnd ==
  [][(/\ JsonStep
      /\ last'.af = {} /\ last'.mf = {} /\ last'.yf = <<0, 0>>
      /\ "MEASURE_CODE" \notin last'.record.has
      /\ last'.record.YEAR.ok /\ last'.record.VALUE.ok
      /\ last'.record.AUTH_CODE \in DOMAIN areas
      /\ areas[last'.record.AUTH_CODE].measures = EmptyMap) =>
       LET r == last'.record
           a == areas'[r.AUTH_CODE]
           code == ToLower(last'.cols.SINGLE_MEASURE_CODE)
       IN /\ DOMAIN a.measures = {code}
          /\ DOMAIN a.measures[code].values = {r.YEAR.val}
          /\ a.measures[code].values[r.YEAR.val] = r.VALUE.val
          /\ MeasureGetDifference(a.measures[code]) = 0]_vars

ByYearStep ==
  /\ last'.op \in {"populate3", "populate6"}
  /\ last'.type = "AuthorityByYearCSV"
  /\ is.kind = "AuthorityByYearCSV"

\* the rows of the table the area filter of the call lets through, for an
\* authority code the collection does not hold
MissingRows ==
  {n \in DOMAIN is.rows :
     /\ last'.af = {} \/ is.rows[n].code \in last'.af
     /\ is.rows[n].code \notin DOMAIN areas}

(***************************************************************************)
(* C13: authority-by-year ingestion never creates an Area: a call on a     *)
(* table with an unfiltered row whose authority code is not in the         *)
(* collection fails with NotFound, and after any call the set of authority *)
(* codes of the collection is what it was.                                 *)
(***************************************************************************)
C13_ByYearNeverCreates ==
  [][ByYearStep =>
       /\ DOMAIN areas' = DOMAIN areas
       /\ MissingRows # {} => last'.err = "out_of_range"]_vars

\* the header or a row up to row n holds a token that is not a number
MalformedUpTo(n) ==
  \/ \E i \in DOMAIN is.header : ~is.header[i].ok
  \/ \E j \in 1..n : \E i \in DOMAIN is.rows[j].vals : ~is.rows[j].vals[i].ok

(***************************************************************************)
(* C13 as amended: authority-by-year ingestion never creates an Area: a    *)
(* call on a table with an unfiltered row whose authority code is not in   *)
(* the collection fails, with NotFound unless the header or a row up to    *)
(* and including that one holds an unparseable number, and then with       *)
(* NotFound or MalformedInput; after any call the set of authority codes   *)
(* is what it was.                                                          *)
(***************************************************************************)
C13_ByYearNeverCreatesAmended ==
  [][ByYearStep =>
       /\ DOMAIN areas' = DOMAIN areas
       /\ MissingRows # {} =>
            LET n == CHOOSE x \in MissingRows : \A z \in MissingRows : x <= z
            IN /\ last'.err \in {"out_of_range", "invalid_argument"}
               /\ last'.err = "invalid_argument" => MalformedUpTo(n)]_vars

\* W2 is the one area and holds nothing: the one row of the table was let
\* through, was for an area that is not there, and the call failed
C13_Witness ==
  /\ last.op = "populate6"
  /\ last.type = "AuthorityByYearCSV"
  /\ last.kind = "AuthorityByYearCSV"
  /\ last.rows = 1
  /\ last.af = {}
  /\ last.err = "out_of_range"
  /\ DOMAIN areas = {"W2"}
  /\ areas["W2"].measures = EmptyMap

AuthStep ==
  /\ last'.op \in ParserOps
  /\ last'.type = "AuthorityCodeCSV"
  /\ is.kind = "AuthorityCodeCSV"

\* the rows of the table that are reached and let through by the area filter
AcceptedRows ==
  {n \in DOMAIN is.rows :
     /\ \A j \in 1..n : Len(is.rows[j]) >= 3
     /\ last'.af = {} \/ is.rows[n][1] \in last'.af}

(***************************************************************************)
(* C14: authority-code table ingestion creates one Area per accepted row,  *)
(* with the English and the Welsh name of that row and no measures; when   *)
(* a code recurs or was already in the collection the first-inserted Area  *)
(* wins and later rows leave its names and measures as they were.          *)
(***************************************************************************)
C14_AuthorityCodeFirstWins ==
  [][AuthStep =>
       /\ \A c \in DOMAIN areas : c \in DOMAIN areas' /\ areas'[c] = areas[c]
       /\ \A n \in AcceptedRows : is.rows[n][1] \in DOMAIN areas'
       /\ \A c \in DOMAIN areas' \ DOMAIN areas :
            \E n \in AcceptedRows :
              /\ is.rows[n][1] = c
              /\ \A j \in AcceptedRows : is.rows[j][1] = c => n <= j
              /\ areas'[c].areaAuthCode = c
              /\ DOMAIN areas'[c].names = {s_eng, s_cym}
              /\ areas'[c].names[s_eng] = is.rows[n][2]
              /\ areas'[c].names[s_cym] = is.rows[n][3]
              /\ areas'[c].measures = EmptyMap
       /\ (last'.err = "ok") = (\A n \in DOMAIN is.rows : Len(is.rows[n]) >= 3)]_vars

\* a table of two rows for W1 has been ingested into an empty collection and
\* W1 has the names of a first row
C14_Witness ==
  /\ last.op = "populateFromAuthorityCodeCSV"
  /\ last.err = "ok"
  /\ last.af = {}
  /\ last.rows = 2
  /\ calls = 1
  /\ DOMAIN areas = {"W1"}
  /\ areas["W1"].names[s_eng] = "N1"
  /\ areas["W1"].names[s_cym] = "N2"

(***************************************************************************)
(* C15: a populate call on an unreadable stream, on an empty stream or     *)
(* with an unrecognised format tag raises its error and leaves the         *)
(* collection exactly as it was.                                            *)
(***************************************************************************)
C15_RejectedNoMutation ==
  [][(/\ last'.op \in {"populate3", "populate6"}
      /\ is.kind \in {"bad", "empty"} \/ last'.type = "None") =>
       /\ last'.err = "runtime_error"
       /\ areas' = areas]_vars

\* a readable JSON document was handed over with an unrecognised format tag
\* to a collection that holds areas, and was rejected
C15_Witness ==
  /\ last.op = "populate6"
  /\ last.type = "None"
  /\ last.kind = "WelshStatsJSON"
  /\ last.rows > 0
  /\ last.err = "runtime_error"
  /\ areas # EmptyMap

(***************************************************************************)
(* C16: for every stream, format tag, column mapping and starting          *)
(* collection, populate(is, type, cols) ends as populate(is, type, cols,   *)
(* {}, {}, (0,0)) does: with the same collection and the same error.       *)
(***************************************************************************)
C16_OverloadsAgree ==
  [][last'.op = "populate3" =>
       Result(areas', last'.err) =
         Populate(areas, is, last'.type, last'.cols, last'.first, {}, {}, <<0, 0>>)]_vars

\* the three-argument overload has stored, in a run whose filters would have
\* excluded them, year 1 values for area W2
C16_Witness ==
  /\ last.op = "populate3"
  /\ last.type = "AuthorityByYearCSV"
  /\ last.err = "ok"
  /\ areasFilter = {"W1"}
  /\ yearsFilter = <<2, 2>>
  /\ "W2" \in DOMAIN areas
  /\ \E k \in DOMAIN areas["W2"].measures : 1 \in DOMAIN areas["W2"].measures[k].values

FailStep == last'.op \in ParserOps /\ last'.err # "ok"

Carries(c, y) ==
  CASE is.kind = "AuthorityByYearCSV" ->
         \E n \in DOMAIN is.rows : \E i \in DOMAIN is.rows[n].vals :
           /\ is.rows[n].code = c
           /\ i \in DOMAIN is.header
           /\ is.header[i].ok /\ is.header[i].val = y
    [] is.kind = "WelshStatsJSON" ->
         \E n \in DOMAIN is.value :
           /\ is.value[n].AUTH_CODE = c
           /\ is.value[n].YEAR.ok /\ is.value[n].YEAR.val = y
    [] OTHER -> FALSE

LoadDone == run.i = Len(run.datasets) + 1

(***************************************************************************)
(* C18: loadDatasets attempts every dataset of its list, in order: an      *)
(* error raised by the ingestion of dataset k is reported and the loop     *)
(* goes on with dataset k+1, so the run reaches the end of the list with   *)
(* every dataset attempted and every failure reported.                     *)
(***************************************************************************)
C18_AttemptsAll ==
  /\ <>(/\ LoadDone
        /\ run.attempted = [k \in 1..Len(run.datasets) |-> k])
  /\ [][last'.op = "loadDatasets" =>
          /\ run'.i = run.i + 1
          /\ IF last'.err = "ok" THEN run'.cerr = run.cerr
             ELSE /\ Len(run'.cerr) = Len(run.cerr) + 1
                  /\ run'.cerr[Len(run'.cerr)].dataset = run.i]_vars

\* the first dataset of two failed and was reported, the second was
\* ingested and gave an area a measure
C18_Witness ==
  /\ LoadDone
  /\ Len(run.datasets) = 2
  /\ Len(run.cerr) = 1
  /\ run.cerr[1].dataset = 1
  /\ last.op = "loadDatasets" /\ last.dataset = 2 /\ last.err = "ok"
  /\ \E c \in DOMAIN areas : areas[c].measures # EmptyMap

(***************************************************************************)
(* C20: Areas.toJSON() on a collection without areas returns the text of   *)
(* the empty JSON object, "{}".                                             *)
(***************************************************************************)
C20_EmptyToJSON ==
  (last.op = "toJSON" /\ areas = EmptyMap) =>
    /\ last.result.err = "ok"
    /\ last.result.out.text = "{}"

\* C21: writing a collection as text succeeds for every collection: an Area
\* with both names is written with its English and Welsh names, an Area with
\* an English name only with that name, an Area without any name is written
\* without an error being raised, and an Area without measures is written
\* with the line "<no measures>".
C21_PrintSucceeds ==
  last.op = "print" =>
    /\ last.result.err = "ok"
    /\ DOMAIN last.result.out = DOMAIN areas
    /\ \A c \in DOMAIN areas :
         LET a == areas[c]
             l == last.result.out[c]
         IN /\ s_eng \in DOMAIN a.names => l.eng = a.names[s_eng]
            /\ l.cym = IF s_cym \in DOMAIN a.names THEN <<a.names[s_cym]>> ELSE <<>>
            /\ l.noMeasures = (DOMAIN a.measures = {})

\* C22: getAverage, getDifference and getDifferenceAsPercentage return 0 on
\* an empty series; the two differences return 0 on a series of fewer than
\* two values; the percentage returns 0 when the value of the first year is
\* 0; otherwise getDifference is the value given to the greatest year minus
\* the value given to the smallest year, in whatever order they were given.
C22_Statistics ==
  last.op = "statistics" =>
    LET given == assigned[last.i]
        ys == DOMAIN given
    IN /\ ys = {} => /\ last.average = Zero
                      /\ last.difference = 0
                      /\ last.percentage = Zero
       /\ Cardinality(ys) < 2 => /\ last.difference = 0
                                  /\ last.percentage = Zero
       /\ \A lo \in ys, hi \in ys :
            (\A z \in ys : lo <= z /\ z <= hi) =>
              /\ given[lo] = 0 => last.percentage = Zero
              /\ Cardinality(ys) >= 2 => last.difference = given[hi] - given[lo]

C22_Witness ==
  /\ last.op = "statistics"
  /\ Cardinality(DOMAIN assigned[last.i]) = MaxYear
  /\ last.difference < 0
  /\ last.percentage # Zero

\* C25: after any sequence of setValue calls on a Measure, getValue(y)
\* returns the value of the most recent setValue(y, v) of that year, and
\* fails with std::out_of_range for a year that was never set.
C25_GetValueMostRecent ==
  last.op = "getValue" =>
    IF last.year \in DOMAIN assigned[last.i]
      THEN last.result.err = "ok" /\ last.result.value = assigned[last.i][last.year]
      ELSE last.result.err = "out_of_range"

C25_Witness ==
  /\ last.op = "getValue"
  /\ last.result.err = "ok"
  /\ last.result.value = 0
  /\ \E y \in Years : y \notin DOMAIN assigned[last.i]
  /\ \E y \in DOMAIN assigned[last.i] : assigned[last.i][y] = MaxVal

\* C23: let A0 be a copy of A, and R be A after A.combine(B).  After
\* R.combine(A0) every year unique to B has B's value, every year unique to
\* A has A's value, and every year both A and B define has B's value.
C23_Recombine ==
  [][last'.op = "recombine" =>
       LET A == ms[last'.i].values
           B == ms[last'.j].values
           res == ms'[last'.i].values
       IN /\ DOMAIN res = DOMAIN A \cup DOMAIN B
          /\ \A y \in DOMAIN B \ DOMAIN A : res[y] = B[y]
          /\ \A y \in DOMAIN A \ DOMAIN B : res[y] = A[y]
          /\ \A y \in DOMAIN A \cap DOMAIN B : res[y] = B[y]]_vars

\* C23 as amended: a year both A and B define has A's value, A0 being the
\* argument of the last combine; the years unique to either keep theirs.
C23_RecombineAmended ==
  [][last'.op = "recombine" =>
       LET A == ms[last'.i].values
           B == ms[last'.j].values
           res == ms'[last'.i].values
       IN /\ DOMAIN res = DOMAIN A \cup DOMAIN B
          /\ \A y \in DOMAIN B \ DOMAIN A : res[y] = B[y]
          /\ \A y \in DOMAIN A : res[y] = A[y]]_vars

C23_Witness ==
  /\ last.op = "recombine"
  /\ last.i # last.j
  /\ DOMAIN ms[last.j].values \ DOMAIN last.a0 # {}
  /\ DOMAIN last.a0 \ DOMAIN ms[last.j].values # {}
  /\ \E y \in DOMAIN ms[last.j].values \cap DOMAIN last.a0 :
       /\ last.a0[y] # ms[last.j].values[y]
       /\ ms[last.i].values[y] = last.a0[y]

\* C24: combine is idempotent (A.combine(B) applied twice leaves the same
\* year-to-value mapping as applied once); for A and B with disjoint year
\* sets A.combine(B) and B.combine(A) hold the same mapping; and on a year
\* both define, the value of the argument wins.
C24_CombineAlgebra ==
  [][/\ last'.op = "combineTwice" => ms'[last'.i].values = last'.once
     /\ (last'.op = "combineBothWays"
           /\ DOMAIN ms[1].values \cap DOMAIN ms[2].values = {})
          => ms'[1].values = ms'[2].values
     /\ last'.op \in {"combine", "combineTwice"} =>
          \A y \in DOMAIN ms[last'.i].values \cap DOMAIN ms[last'.j].values :
            ms'[last'.i].values[y] = ms[last'.j].values[y]]_vars

C24_Witness ==
  /\ last.op = "combineTwice"
  /\ last.i # last.j
  /\ \E y \in DOMAIN ms[last.j].values : assigned[last.i][y] = ms[last.j].values[y]
  /\ DOMAIN ms[last.i].values \ DOMAIN ms[last.j].values # {}

\* C26: the measure filter of populate matches ignoring case: a JSON record
\* whose measure code equals an entry of the filter up to case, and which
\* passes the area filter and the year range, is imported.
C26_MeasureFilterAnyCase ==
  [][(/\ JsonStep
      /\ "MEASURE_CODE" \in last'.record.has
      /\ \E f \in last'.mf : ToLower(f) = ToLower(last'.record.MEASURE_CODE)
      /\ ~AreaFails(last'.record, last'.af)
      /\ last'.record.YEAR.ok /\ InRange(last'.record.YEAR.val, last'.yf)
      /\ last'.record.VALUE.ok) =>
       LET r == last'.record
           c == r.AUTH_CODE
           m == ToLower(r.MEASURE_CODE)
       IN /\ last'.err = "ok"
          /\ c \in DOMAIN areas'
          /\ m \in DOMAIN areas'[c].measures
          /\ r.YEAR.val \in DOMAIN areas'[c].measures[m].values]_vars

\* every entry of a collection is keyed by its Area's own authority code
KeysOwn(as) == \A k \in DOMAIN as : AreasGetArea(as, k).value.areaAuthCode = k

MeasuresKeyed(as) ==
  \A c \in DOMAIN as : \A k \in DOMAIN as[c].measures : as[c].measures[k].codename = k

\* the number of entries toJSON writes for the measures of one Area
JsonEntries(a) ==
  IF MeasuresJson(a).type = "null" THEN 0 ELSE Cardinality(DOMAIN MeasuresJson(a).members)

\* C28: after any sequence of Area.setMeasure calls and parser calls every
\* measure of an Area is stored under its own codename, so toJSON writes
\* one entry for each stored measure of the Area.
C28_MeasuresKeyed ==
  /\ MeasuresKeyed(areas)
  /\ \A c \in DOMAIN areas : JsonEntries(areas[c]) = Cardinality(DOMAIN areas[c].measures)

\* C28 as amended: the property is kept by every parser call, and by every
\* setMeasure(code, m) call in which code is, up to case, m's own codename.
C28_MeasuresKeyedAmended ==
  [][(/\ MeasuresKeyed(areas)
      /\ last'.op = "getArea.setMeasure" => ToLower(last'.key) = last'.codename)
       => /\ MeasuresKeyed(areas')
          /\ \A c \in DOMAIN areas' :
               JsonEntries(areas'[c]) = Cardinality(DOMAIN areas'[c].measures)]_vars

C28_Witness ==
  /\ last.op = "getArea.setMeasure"
  /\ ToLower(last.key) = last.codename
  /\ last.key # last.codename
  /\ MeasuresKeyed(areas)
  /\ \E c \in DOMAIN areas : JsonEntries(areas[c]) = 2

\* C29: after any sequence of populate calls with any filters, every
\* measure stored in an Area holds at least one year: a row or record whose
\* years are all excluded by the year filter adds no measure to its Area.
C29_NoEmptySeries ==
  \A c \in DOMAIN areas : \A k \in DOMAIN areas[c].measures :
    DOMAIN areas[c].measures[k].values # {}

\* the rows of a by-year table the area filter of the call lets through
Unfiltered == {n \in DOMAIN is.rows : last'.af = {} \/ is.rows[n].code \in last'.af}

\* the rows of a by-year table on which the parser raises when it gets there
RowFails ==
  {n \in Unfiltered :
     \/ Len(is.rows[n].vals) > Len(is.header)
     \/ \E i \in DOMAIN is.rows[n].vals : ~is.rows[n].vals[i].ok
     \/ is.rows[n].code \notin DOMAIN areas}

\* the rows of a by-year table merged before the first failing row
MergedRows == {n \in Unfiltered : \A f \in RowFails : n < f}

\* row n of a by-year table gives a value to year y that the year range keeps
Gives(n, y) ==
  \E i \in DOMAIN is.rows[n].vals :
    is.header[i].val = y /\ ~ByYearSkipped(y, last'.yf)

\* C30: a CSV parser call that raises on a malformed row is not rolled
\* back: every Area the authority-code rows before the failing row
\* inserted, and every value the by-year rows before the failing row
\* merged, is in the collection after the failed call.
C30_NoRollback ==
  [][/\ (AuthStep /\ last'.err # "ok") =>
          \A n \in AcceptedRows :
            LET c == is.rows[n][1] IN
            /\ c \in DOMAIN areas'
            /\ c \notin DOMAIN areas =>
                 \E j \in AcceptedRows :
                   /\ is.rows[j][1] = c
                   /\ areas'[c].names[s_eng] = is.rows[j][2]
                   /\ areas'[c].names[s_cym] = is.rows[j][3]
     /\ (ByYearStep /\ last'.err # "ok" /\ \A i \in DOMAIN is.header : is.header[i].ok) =>
          LET k == ToLower(SingleMeasureOf(last'.cols, last'.first).code) IN
          \A n \in MergedRows : \A y \in Years :
            (/\ Gives(n, y)
             /\ \A j \in MergedRows :
                  (j > n /\ is.rows[j].code = is.rows[n].code) => ~Gives(j, y)) =>
              LET c == is.rows[n].code
                  i == CHOOSE x \in DOMAIN is.rows[n].vals : is.header[x].val = y
              IN /\ k \in DOMAIN areas'[c].measures
                 /\ y \in DOMAIN areas'[c].measures[k].values
                 /\ areas'[c].measures[k].values[y] = is.rows[n].vals[i].val]_vars

\* a by-year table of two rows failed on its second row with
\* std::out_of_range, and W1 holds the values of the first row
C30_Witness ==
  /\ last.op = "populate6"
  /\ last.type = "AuthorityByYearCSV"
  /\ last.kind = "AuthorityByYearCSV"
  /\ last.err = "out_of_range"
  /\ last.rows = 2
  /\ calls = 2
  /\ "W1" \in DOMAIN areas
  /\ \E k \in DOMAIN areas["W1"].measures :
       /\ DOMAIN areas["W1"].measures[k].values = Years
       /\ \A y \in Years : areas["W1"].measures[k].values[y] = V(2)

====
